---- MODULE Spec2Model ----
(***************************************************************************)
(* The Ollama chat bridge of college-bot-v2 (src/src/cogs/ollama.py):      *)
(* the ChatHistory store (in-memory cache + redis), the server pool        *)
(* cursor, the line decoder ollama_stream, and the /ollama command         *)
(* handler run by several concurrent invocations.                          *)
(*                                                                         *)
(* Text is a sequence of one-character strings ("#" stands for a block of  *)
(* BlockLen characters); a Python dict is a function or a record; a JSON   *)
(* document is a tree of tagged records whose objects are ordered lists of *)
(* <<key, value>> pairs.                                                   *)
(***************************************************************************)
EXTENDS Integers, Sequences, FiniteSets, TLC

VARIABLES
    internal,     \* ChatHistory._internal : cache key -> Python value
    redis,        \* the durable store     : thread id -> JSON text ("threads:" + id)
    last_server,  \* Ollama.last_server
    req,          \* one record of locals per invocation of Ollama.ollama
    store,        \* History Store exercised alone: last call and what it returned
    rr,           \* next_server exercised alone: pool, cursor, keys returned
    dec,          \* ollama_stream exercised alone: input lines, position, output
    chk           \* check_server exercised alone: what each probe met and returned

vars == <<internal, redis, last_server, req, store, rr, dec, chk>>

----------------------------------------------------------------------------
(* Text                                                                    *)

\* Python's None where a str is expected (no text contains this token).
None == <<"<None>">>

\* The context option's default (no thread key given).
NoKey == "<None>"

Upper == <<"A","B","C","D","E","F","G","H","I","J","K","L","M",
           "N","O","P","Q","R","S","T","U","V","W","X","Y","Z">>
Lower == <<"a","b","c","d","e","f","g","h","i","j","k","l","m",
           "n","o","p","q","r","s","t","u","v","w","x","y","z">>

\* str.casefold, character by character.
casefold(s) ==
    [i \in 1..Len(s) |->
        IF \E j \in 1..Len(Upper) : Upper[j] = s[i]
        THEN Lower[CHOOSE j \in 1..Len(Upper) : Upper[j] = s[i]]
        ELSE s[i]]

\* fnmatch.fnmatch on a POSIX host: "*" matches any run, "?" one character,
\* anything else itself, case-sensitively.
RECURSIVE fnmatch(_, _)
fnmatch(name, pat) ==
    IF pat = <<>> THEN name = <<>>
    ELSE IF Head(pat) = "*"
         THEN fnmatch(name, Tail(pat)) \/ (name # <<>> /\ fnmatch(Tail(name), pat))
    ELSE IF name = <<>> THEN FALSE
    ELSE (Head(pat) = "?" \/ Head(pat) = Head(name)) /\ fnmatch(Tail(name), Tail(pat))

\* One token that stands for a run of BlockLen characters.
Block == "#"
BlockLen == 4000

RECURSIVE StrLen(_)
StrLen(s) == IF s = <<>> THEN 0
             ELSE (IF Head(s) = Block THEN BlockLen ELSE 1) + StrLen(Tail(s))

----------------------------------------------------------------------------
(* JSON                                                                    *)

JNum(n) == [t |-> "num", v |-> n]
JStr(s) == [t |-> "str", v |-> s]
JArr(a) == [t |-> "arr", v |-> a]
JObj(p) == [t |-> "obj", v |-> p]

\* Python values held by the cache.
PyInt(n)  == [kind |-> "int",  val |-> n]
PyList(l) == [kind |-> "list", val |-> l]
PyDict(d) == [kind |-> "dict", val |-> d]

\* images=None, and an absent "images" key of a message.
NoImages == <<>>

\* ChatHistory._construct_message: the images key is set only when truthy
\* (None and [] both leave it absent).
construct_message(role, content, images) ==
    [role |-> role, content |-> content, images |-> images]

\* json.dumps of one message dict.
dumps_message(m) ==
    JObj(<< <<"role", JStr(m.role)>>, <<"content", JStr(m.content)>> >>
         \o (IF m.images # <<>>
             THEN << <<"images", JArr([i \in 1..Len(m.images) |-> JStr(m.images[i])])>> >>
             ELSE <<>>))

\* json.dumps(self._internal[thread_id]) for a thread dict.
json_dumps(thread) ==
    JObj(<< <<"member", JNum(thread.member)>>,
            <<"seed", JNum(thread.seed)>>,
            <<"messages",
              JArr([i \in 1..Len(thread.messages) |-> dumps_message(thread.messages[i])])>> >>)

\* The value of key k in a JSON object's pair list.
JGet(pairs, k) == pairs[CHOOSE i \in 1..Len(pairs) : pairs[i][1] = k][2]
JKeys(pairs) == {pairs[i][1] : i \in 1..Len(pairs)}

\* json.loads of one message object.
loads_message(j) ==
    [role |-> JGet(j.v, "role").v, content |-> JGet(j.v, "content").v,
     images |-> IF "images" \in JKeys(j.v)
                THEN [i \in 1..Len(JGet(j.v, "images").v) |-> JGet(j.v, "images").v[i].v]
                ELSE <<>>]

\* json.loads of a value of the stored document: a number or the message array.
loads_value(j) ==
    IF j.t = "num" THEN PyInt(j.v)
    ELSE PyList([i \in 1..Len(j.v) |-> loads_message(j.v[i])])

\* json.loads(value): the dict of the stored document, key -> Python value.
json_loads(text) ==
    [k \in JKeys(text.v) |-> loads_value(JGet(text.v, k))]

----------------------------------------------------------------------------
(* ChatHistory                                                             *)

\* dict item assignment d[k] = v.
SetItem(d, k, v) == [x \in (DOMAIN d) \cup {k} |-> IF x = k THEN v ELSE d[x]]

\* dict.update(other).
DictUpdate(d, other) ==
    [x \in (DOMAIN d) \cup (DOMAIN other) |-> IF x \in DOMAIN other THEN other[x] ELSE d[x]]

EmptyDict == [x \in {} |-> 0]

\* The default prompt asset ./assets/ollama-prompt.txt.
FilePrompt == <<"s","y","s">>

\* get_thread: self._internal.get(thread, {}).copy(); an int has no copy().
get_thread_raises(cache, thread) ==
    thread \in DOMAIN cache /\ cache[thread].kind = "int"

get_thread(cache, thread) ==
    IF thread \in DOMAIN cache THEN cache[thread] ELSE PyDict(EmptyDict)

\* Python truth of what get_thread returned.
Truthy(v) ==
    CASE v.kind = "list" -> v.val # <<>>
      [] v.kind = "dict" -> DOMAIN v.val # {}
      [] v.kind = "int"  -> v.val # 0

\* get_history: [] for an unknown thread, else a copy of the message list;
\* a list value under the key has no ["messages"].
get_history_raises(cache, thread) ==
    thread \in DOMAIN cache /\ cache[thread].kind # "dict"

get_history(cache, thread) ==
    IF thread \notin DOMAIN cache THEN <<>> ELSE cache[thread].val.messages

\* get_history that returns the cached list itself.
get_history_nocopy(cache, thread) == thread \in DOMAIN cache

\* Whether the list get_history returns is the cached list: never, it is a
\* .copy() or a new [].
get_history_aliases(cache, thread) == FALSE

\* list.append(message) on a list get_history returned: the cache afterwards.
history_append(cache, thread, message) ==
    IF get_history_aliases(cache, thread)
    THEN SetItem(cache, thread,
            PyDict([cache[thread].val EXCEPT !.messages = Append(@, message)]))
    ELSE cache

\* add_message that also bumps the thread's seed.
add_message_reseed(cache, thread, role, content, images) ==
    SetItem(cache, thread,
        PyDict([cache[thread].val EXCEPT
            !.messages = Append(@, construct_message(role, content, images)),
            !.seed = @ + 1]))

\* add_message: self._internal[thread]["messages"].append(new).
add_message(cache, thread, role, content, images) ==
    SetItem(cache, thread,
        PyDict([cache[thread].val EXCEPT
            !.messages = Append(@, construct_message(role, content, images))]))

\* create_thread that forgets the system prompt.
create_thread_bare(cache, key, member, seed, default) ==
    SetItem(cache, key, PyDict([member |-> member, seed |-> seed, messages |-> <<>>]))

\* create_thread with key = os.urandom(3).hex() and seed = round(time.time()).
create_thread(cache, key, member, seed, default) ==
    add_message(
        SetItem(cache, key, PyDict([member |-> member, seed |-> seed, messages |-> <<>>])),
        key, "system",
        IF default = None \/ default = <<>> THEN FilePrompt ELSE default,
        NoImages)

\* save_thread that keeps a value the store already holds.
save_thread_first(cache, db, thread_id) ==
    IF thread_id \in DOMAIN db THEN db
    ELSE SetItem(db, thread_id, json_dumps(cache[thread_id].val))

\* save_thread: redis.set("threads:" + thread_id, json.dumps(...)).
save_thread(cache, db, thread_id) ==
    SetItem(db, thread_id, json_dumps(cache[thread_id].val))

\* load_thread: the cache after self._internal.update(json.loads(value)).
load_thread(cache, db, thread_id) ==
    IF thread_id \in DOMAIN db
    THEN DictUpdate(cache, json_loads(db[thread_id]))
    ELSE cache

\* What load_thread returns: get_thread(thread_id) after the update, or None
\* (an empty dict here: both are falsy to every caller).
load_thread_result(cache, db, thread_id) ==
    IF thread_id \in DOMAIN db
    THEN get_thread(load_thread(cache, db, thread_id), thread_id)
    ELSE PyDict(EmptyDict)

----------------------------------------------------------------------------
(* Server pool                                                             *)

\* Characters of the model ids and glob patterns of the configuration.
LlavaAny    == <<"l","l","a","v","a",":","*">>
PhiAny      == <<"p","h","i",":","*">>
LlavaLatest == <<"l","l","a","v","a",":","l","a","t","e","s","t">>
TagLatest   == <<":","l","a","t","e","s","t">>
ImageAny    == <<"i","m","a","g","e","/","*">>

\* CONFIG["ollama"] of config.toml: two backends, in file order.
CONFIG ==
    [a |-> [base_url |-> "http://a", allowed_models |-> <<LlavaAny, PhiAny>>],
     b |-> [base_url |-> "http://b", allowed_models |-> <<LlavaAny>>]]

SERVER_KEYS == <<"a", "b">>

\* next_server that never advances.
next_server_cursor_stuck(cursor, increment) == cursor

\* next_server: the cursor after the call, and the key it returns.
next_server_cursor(cursor, increment) == IF increment THEN cursor + 1 ELSE cursor

next_server(keys, cursor, increment) ==
    keys[(next_server_cursor(cursor, increment) % Len(keys)) + 1]

\* An allow-list check that lets every model through.
model_allowed_any(model, server_config) == TRUE

\* The for/else of the allow-list check: some pattern matches the model.
model_allowed(model, server_config) ==
    \E n \in 1..Len(server_config.allowed_models) :
        fnmatch(model, server_config.allowed_models[n])

\* model.casefold(), then split(":", 1): a tag is kept, else ":latest" is added.
normalize_model(model) ==
    LET m == casefold(model)
    IN IF \E n \in 1..Len(m) : m[n] = ":" THEN m ELSE m \o TagLatest

----------------------------------------------------------------------------
(* Streaming decoder                                                       *)

\* A raw line is a sequence of lexical tokens: "{" key value ... "}" is a
\* JSON object, one numeric token a JSON number, " " and "\n" white space.
NumOf == [x \in {"0", "5", "25", "50", "100"} |->
            CASE x = "0" -> 0 [] x = "5" -> 5 [] x = "25" -> 25
              [] x = "50" -> 50 [] x = "100" -> 100]

IsSpace(tok) == tok \in {" ", "\n"}
IsPunct(tok) == tok \in {"{", "}"} \/ IsSpace(tok)

\* str.strip().
RECURSIVE lstrip(_)
lstrip(s) == IF s # <<>> /\ IsSpace(Head(s)) THEN lstrip(Tail(s)) ELSE s

RECURSIVE rstrip(_)
rstrip(s) == IF s # <<>> /\ IsSpace(s[Len(s)]) THEN rstrip(SubSeq(s, 1, Len(s) - 1)) ELSE s

strip(s) == rstrip(lstrip(s))

\* json.loads raises JSONDecodeError unless the text is a number or an object.
json_is_number(s) == Len(s) = 1 /\ s[1] \in DOMAIN NumOf

json_is_object(s) ==
    /\ Len(s) >= 2 /\ s[1] = "{" /\ s[Len(s)] = "}"
    /\ (Len(s) - 2) % 2 = 0
    /\ \A n \in 2..(Len(s) - 1) : ~IsPunct(s[n])

json_decodes(s) == json_is_number(s) \/ json_is_object(s)

\* json.loads of a line that decodes: an int, or a dict key -> value token
\* (a repeated key keeps its last value).
json_loads_line(s) ==
    IF json_is_number(s) THEN PyInt(NumOf[s[1]])
    ELSE LET keys == {s[2 * n] : n \in 1..((Len(s) - 2) \div 2)}
         IN PyDict([k \in keys |->
                s[2 * (CHOOSE n \in 1..((Len(s) - 2) \div 2) :
                        s[2 * n] = k /\ \A m \in (n + 1)..((Len(s) - 2) \div 2) : s[2 * m] # k) + 1]])

\* ollama_stream without its continue: a line that fails to parse is yielded too.
ollama_stream_nocontinue(raw) ==
    LET line == strip(raw)
    IN [yield |-> TRUE,
        value |-> IF json_decodes(line) THEN json_loads_line(line) ELSE PyInt(0)]

\* One pass of the loop body of ollama_stream on one raw line: the line is
\* yielded decoded, or logged and skipped.
ollama_stream(raw) ==
    LET line == strip(raw)
    IN IF json_decodes(line)
       THEN [yield |-> TRUE, value |-> json_loads_line(line)]
       ELSE [yield |-> FALSE, value |-> PyInt(0)]

----------------------------------------------------------------------------
(* The /ollama command: inputs                                             *)

ThreadIds == {"t1", "t2"}

\* Values of the context option: no key, a thread id, or another string.
Contexts == {NoKey, "messages"} \cup ThreadIds

\* Values of the model option: "Phi" and "llava:7b".
RawModels == { <<"P","h","i">>, <<"l","l","a","v","a",":","7","b">> }

\* Values of the server option ("zz" names no backend).
ServerOptions == {"next", "a", "b", "zz"}

\* 25 MB, the attachment ceiling.
MaxAttachment == 1024 * 1024 * 25

NoImage == [present |-> FALSE, size |-> 0, content_type |-> <<>>, data |-> <<>>]
Png == [present |-> TRUE, size |-> 6,
        content_type |-> <<"i","m","a","g","e","/","p","n","g">>, data |-> <<"abc", "xyz">>]
Big == [Png EXCEPT !.size = MaxAttachment + 1]
Txt == [Png EXCEPT !.content_type = <<"t","e","x","t","/","p","l","a","i","n">>]
Images == {NoImage, Png, Big, Txt}

\* base64.b64encode(...).decode(), three bytes to four characters.
b64encode(data) ==
    [n \in 1..Len(data) |-> CASE data[n] = "abc" -> "YWJj" [] data[n] = "xyz" -> "eHl6"]

Queries == { <<"h","i">>, <<"y","o">> }

\* Arguments of create_thread: <<member, seed, default>>.
NewThreads == { <<7, 1, None>>, <<8, 2, <<"b","e">>>> }

\* Bodies a backend can stream, line by line.
ChatLines == {
    <<"{", "message", "x", "done", "false", "}", "\n">>,
    <<"{", "message", Block, "}", "\n">>,
    <<"{", "message", "", "done", "true", "total_duration", "5", "load_duration", "5",
      "prompt_eval_duration", "5", "eval_duration", "5", "}", "\n">>,
    <<"{", "message", "", "done", "true", "}", "\n">>,
    <<"{", "done", "false", "}", "\n">>,
    <<"{", "message", "x", "\n">>,
    <<"5", "\n">> }

PullLines == {
    <<"{", "status", "pulling", "completed", "50", "total", "100", "}", "\n">>,
    <<"{", "status", "pulling", "}", "\n">>,
    <<"{", "status", "pulling", "completed", "0", "total", "0", "}", "\n">>,
    <<"{", "status", "\n">>,
    <<"5", "\n">> }

\* End of the response body.
EOF == <<"<EOF>">>

\* Outcomes of one HTTP request: a status, or the exception it raises.
HttpOutcomes == {"200", "404", "500", "ClientConnectionError"}

\* The longest reply the model lets a backend stream, in chunks.
MaxBuffer == 2

----------------------------------------------------------------------------
(* The /ollama command: locals of one invocation                           *)

Unbound == [kind |-> "unbound", val |-> 0]

NoReport == [title |-> "", detail |-> <<>>]
Report(title) == [title |-> title, detail |-> <<>>]

InitLocals ==
    [pc |-> "idle",            \* where the coroutine is suspended
     report |-> NoReport,      \* the message it ended with, or the exception
     context |-> NoKey, model |-> <<>>, image_data |-> <<>>,
     given |-> <<>>,           \* the model parameter as given
     attached |-> FALSE,       \* an image parameter was given
     option |-> "",            \* the server parameter as given
     server |-> "", server_config |-> "",
     failed |-> {},            \* backends whose check_server returned False
     passed |-> "",            \* the backend whose check_server returned True
     show |-> "",              \* what POST /api/show answered
     session |-> "none",       \* the aiohttp.ClientSession of the async with
     i |-> 0,                  \* the failover loop variable
     probes |-> 0,             \* check_server calls answered so far
     sent |-> <<>>,            \* requests posted through the session, in order
     pull_view |-> "none",     \* the OllamaView of the download
     pull_cancel |-> FALSE,    \* the download's Stop button was pressed
     view |-> "none",          \* the OllamaView of the generation
     cancel_at |-> "",         \* pc at which view.cancel was set
     line |-> Unbound, percent |-> -1,
     buffer |-> <<>>, description |-> <<>>,
     received |-> <<>>,        \* the content of every event yielded so far, joined
     user_message |-> construct_message("", <<>>, NoImages),
     persisted |-> FALSE]      \* lines 631-633 have run

\* A session that is left open.
CloseSession_leak(l) == l.session

\* Leaving the coroutine: the async with block closes the session on the way out.
CloseSession(l) == IF l.session = "open" THEN "closed" ELSE l.session

\* A report after which the coroutine goes on.
Return_resumes(l, report) == [l EXCEPT !.report = report]

Return(l, report) ==
    [l EXCEPT !.pc = "returned", !.report = report, !.session = CloseSession(l)]

Raise(l, exception) ==
    [l EXCEPT !.pc = "raised", !.report = Report(exception), !.session = CloseSession(l)]

Posted(l, url, messages, seed) ==
    [l EXCEPT !.sent = Append(@,
        [url |-> url, base_url |-> CONFIG[l.server_config].base_url,
         model |-> l.model, messages |-> messages, seed |-> seed])]

----------------------------------------------------------------------------
(* The /ollama command: steps between suspension points                    *)

\* Lines 347-350: the context key must name a cached thread.
Begin(r, context) ==
    /\ req[r].pc = "idle"
    /\ LET l == [req[r] EXCEPT !.context = context]
       IN req' = [req EXCEPT ![r] =
            IF context = NoKey THEN [l EXCEPT !.pc = "deferred"]
            ELSE IF get_thread_raises(internal, context) THEN Raise(l, "AttributeError")
            ELSE IF ~Truthy(get_thread(internal, context))
                 THEN Return(l, Report("Invalid context key."))
            ELSE [l EXCEPT !.pc = "deferred"]]
    /\ UNCHANGED <<internal, redis, last_server, store, rr, dec, chk>>

\* An image that leaves the model as requested.
image_model_keep(model, image) == model

\* Lines 372-378: an image needs llava.
image_model(model, image) ==
    IF image.present /\ ~fnmatch(model, LlavaAny) THEN LlavaLatest ELSE model

\* Lines 380-385: the attachment checks, "" when the image passes.
image_rejection(image) ==
    IF ~image.present THEN ""
    ELSE IF image.size > MaxAttachment
         THEN "Attachment is too large. Maximum size is 25 MB, for sanity. Try compressing it."
    ELSE IF ~fnmatch(image.content_type, ImageAny)
         THEN "Attachment is not an image. Try using a different file."
    ELSE ""

\* A selection that advances the cursor for a named backend too.
select_cursor_always(cursor, server) == next_server_cursor(cursor, TRUE)

\* Lines 394-398: the cursor after server selection.
select_cursor(cursor, server) == IF server = "next" THEN next_server_cursor(cursor, TRUE) ELSE cursor

select_server(cursor, server) ==
    IF server = "next" THEN next_server(SERVER_KEYS, cursor, TRUE) ELSE server

\* Lines 352-425: normalise the model, check the attachment, select the
\* backend, check the allow-list, open the session.
Validate(r, model, image, server) ==
    /\ req[r].pc = "deferred"
    /\ LET m == image_model(normalize_model(model), image)
           l == [req[r] EXCEPT !.model = m, !.option = server,
                               !.given = model, !.attached = image.present]
           key == select_server(last_server, server)
       IN IF image_rejection(image) # ""
          THEN /\ req' = [req EXCEPT ![r] = Return(l, Report(image_rejection(image)))]
               /\ UNCHANGED last_server
          ELSE /\ last_server' = select_cursor(last_server, server)
               /\ req' = [req EXCEPT ![r] =
                    IF key \notin DOMAIN CONFIG
                    THEN Return([l EXCEPT !.server = key], Report("Invalid server"))
                    ELSE IF ~model_allowed(m, CONFIG[key])
                    THEN Return([l EXCEPT !.server = key],
                                [title |-> "Invalid model. You can only use one of the following models: ",
                                 detail |-> CONFIG[key].allowed_models])
                    ELSE [l EXCEPT !.pc = "probe", !.server = key, !.server_config = key,
                                   !.session = "open",
                                   !.image_data = IF image.present THEN b64encode(image.data) ELSE <<>>]]
    /\ UNCHANGED <<internal, redis, store, rr, dec, chk>>

\* The range(10) of the failover loop.
FailoverAttempts == 10

\* A loop that gives up one attempt early.
failover_exhausted_early(i) == i + 1 >= FailoverAttempts - 1

\* The for loop is exhausted after the attempt with loop variable i.
failover_exhausted(i) == i + 1 >= FailoverAttempts

\* Line 428: one more attempt begins with next_server().
NextAttempt(l, i) ==
    [l EXCEPT !.pc = "failover", !.i = i,
              !.server = next_server(SERVER_KEYS, last_server, TRUE)]

\* Line 426: the probe of the selected backend answers.
Probe(r, ok) ==
    /\ req[r].pc = "probe"
    /\ LET l == [req[r] EXCEPT !.probes = @ + 1]
       IN IF ok
          THEN /\ req' = [req EXCEPT ![r] = [l EXCEPT !.pc = "show", !.passed = l.server_config]]
               /\ UNCHANGED last_server
          ELSE /\ req' = [req EXCEPT ![r] =
                        NextAttempt([l EXCEPT !.failed = @ \cup {l.server_config}], 0)]
               /\ last_server' = next_server_cursor(last_server, TRUE)
    /\ UNCHANGED <<internal, redis, store, rr, dec, chk>>

\* A failover that keeps the configuration of the backend selected first.
failover_config_stale(l) == l.server_config

\* Lines 437-439: server_config and the session's base URL become those of
\* the backend that answered.
failover_config(l) == l.server

\* Lines 436-450: the probe of the backend under trial answers.
Failover(r, ok) ==
    /\ req[r].pc = "failover"
    /\ LET l == [req[r] EXCEPT !.probes = @ + 1]
           f == [l EXCEPT !.failed = @ \cup {l.server}]
       IN IF ok
          THEN /\ req' = [req EXCEPT ![r] =
                        [l EXCEPT !.pc = "show", !.server_config = failover_config(l),
                                  !.passed = l.server]]
               /\ UNCHANGED last_server
          ELSE IF failover_exhausted(l.i)
          THEN /\ req' = [req EXCEPT ![r] = Return(f, Report("All servers are offline."))]
               /\ UNCHANGED last_server
          ELSE /\ req' = [req EXCEPT ![r] = NextAttempt(f, l.i + 1)]
               /\ last_server' = next_server_cursor(last_server, TRUE)
    /\ UNCHANGED <<internal, redis, store, rr, dec, chk>>

\* Lines 530-558: the "Generating response..." embed goes up with its Stop
\* button, replacing the download's embed and view.
StartGenerate(l) ==
    [l EXCEPT !.pc = "build", !.view = "shown", !.description = <<">", ">", ">", " ">>,
              !.pull_view = "none", !.percent = -1]

\* A download that starts whenever the model check did not answer 404.
pull_needed_inverted(status) == status # "404"

\* Line 477: resp.status == 404.
pull_needed(status) == status = "404"

\* Lines 452-476 (and 530-558 on a 200): POST /api/show answers.
Show(r, outcome) ==
    /\ req[r].pc = "show"
    /\ LET l == [Posted(req[r], "/api/show", <<>>, 0) EXCEPT !.show = outcome]
       IN req' = [req EXCEPT ![r] =
            IF outcome = "ClientConnectionError"
            THEN Return(l, Report("Connection error while checking for model."))
            ELSE IF outcome \notin {"404", "200"}
            THEN Return(l, Report("HTTP error while checking for model."))
            ELSE IF pull_needed(outcome) THEN [l EXCEPT !.pc = "pull_post", !.percent = 0]
            ELSE StartGenerate(l)]
    /\ UNCHANGED <<internal, redis, last_server, store, rr, dec, chk>>

\* Lines 498-509: POST /api/pull answers; nothing catches its exceptions.
PullPost(r, outcome) ==
    /\ req[r].pc = "pull_post"
    /\ LET l == Posted(req[r], "/api/pull", <<>>, 0)
       IN req' = [req EXCEPT ![r] =
            CASE outcome = "ClientConnectionError" -> Raise(l, outcome)
              [] outcome = "200" -> [l EXCEPT !.pc = "pull_stream", !.pull_view = "hidden"]
              [] OTHER -> Return(l, Report("HTTP error while downloading model."))]
    /\ UNCHANGED <<internal, redis, last_server, store, rr, dec, chk>>

\* dict.get(key) is not None.
Has(event, key) == key \in DOMAIN event.val

\* Lines 519-522: the percentage of a progress event (the quotient is exact
\* for the events of PullLines).
pull_percent(event) ==
    IF Has(event, "total") /\ Has(event, "completed")
    THEN (NumOf[event.val["completed"]] * 100) \div NumOf[event.val["total"]]
    ELSE 50

\* Lines 510-526: one line of the pull body arrives (or the body ends);
\* elapsed says whether 5.1 s have passed since the last update.
PullStream(r, raw, elapsed) ==
    /\ req[r].pc = "pull_stream"
    /\ LET l == req[r]
           d == ollama_stream(raw)
           l1 == [l EXCEPT !.line = d.value]
       IN req' = [req EXCEPT ![r] =
            IF raw = EOF THEN StartGenerate(l)
            ELSE IF ~d.yield THEN l
            ELSE IF l.pull_view = "cancelled" THEN Return(l1, Report("Download cancelled."))
            ELSE IF ~elapsed THEN l1
            ELSE IF d.value.kind # "dict" THEN Raise(l1, "AttributeError")
            ELSE IF Has(d.value, "total") /\ Has(d.value, "completed")
                    /\ NumOf[d.value.val["total"]] = 0
                 THEN Raise(l1, "ZeroDivisionError")
            ELSE IF ~Has(d.value, "status") THEN Raise(l1, "KeyError")
            ELSE [l1 EXCEPT !.percent = pull_percent(d.value), !.pull_view = "shown"]]
    /\ UNCHANGED <<internal, redis, last_server, store, rr, dec, chk>>

\* OllamaView._stop on the download's view, once line 525 has shown it.
PullCancel(r) ==
    /\ req[r].pc = "pull_stream"
    /\ req[r].pull_view = "shown"
    /\ req' = [req EXCEPT ![r].pull_view = "cancelled", ![r].pull_cancel = TRUE]
    /\ UNCHANGED <<internal, redis, last_server, store, rr, dec, chk>>

\* OllamaView._stop on the generation's view, shown from line 556 to line 630.
ChatCancel(r) ==
    /\ req[r].pc \in {"build", "chat_post", "chat_stream"}
    /\ req[r].view = "shown"
    /\ req' = [req EXCEPT ![r].view = "cancelled", ![r].cancel_at = req[r].pc]
    /\ UNCHANGED <<internal, redis, last_server, store, rr, dec, chk>>

\* A payload that leaves out the oldest message of the thread.
payload_messages_window(messages, user_message) == Append(Tail(messages), user_message)

\* Lines 570-577 and 591: messages = get_history(context), then
\* messages.append(user_message).
payload_messages(messages, user_message) == Append(messages, user_message)

\* Lines 561-595: resolve the thread, build the payload, POST /api/chat.
\* (get_thread never returns None, so lines 564-568 never run.)
BuildContext(r, query) ==
    /\ req[r].pc = "build"
    /\ LET l == req[r]
           user_message == construct_message("user", query,
                               IF l.image_data # <<>> THEN <<l.image_data>> ELSE NoImages)
           fails == \/ l.context = NoKey
                    \/ get_thread_raises(internal, l.context)
                    \/ get_history_raises(internal, l.context)
                    \/ l.context \notin DOMAIN internal
       IN /\ req' = [req EXCEPT ![r] =
                IF l.context = NoKey THEN Raise(l, "NameError")
                ELSE IF get_thread_raises(internal, l.context) THEN Raise(l, "AttributeError")
                ELSE IF get_history_raises(internal, l.context) THEN Raise(l, "TypeError")
                ELSE IF l.context \notin DOMAIN internal THEN Raise(l, "KeyError")
                ELSE [Posted(l, "/api/chat",
                             payload_messages(get_history(internal, l.context), user_message),
                             get_thread(internal, l.context).val.seed)
                        EXCEPT !.pc = "chat_post", !.user_message = user_message]]
          /\ internal' = IF fails THEN internal
                         ELSE history_append(internal, l.context, user_message)
    /\ UNCHANGED <<redis, last_server, store, rr, dec, chk>>

\* The two add_message calls the other way round.
persist_cache_swapped(cache, l) ==
    add_message(
        add_message(cache, l.context, "assistant", l.buffer, NoImages),
        l.context, "user", l.user_message.content, l.user_message.images)

\* Lines 631-632: the cache after the two add_message calls.
persist_cache(cache, l) ==
    add_message(
        add_message(cache, l.context, "user", l.user_message.content, l.user_message.images),
        l.context, "assistant", l.buffer, NoImages)

\* Python truth of line.get("done").
done_flag(event) == Has(event, "done") /\ event.val["done"] \notin {"false", "0", "null", ""}

Durations == {"total_duration", "load_duration", "prompt_eval_duration", "eval_duration"}

\* Lines 630-670 after the store calls: the "Done!" embed, then the timings.
finish(l) ==
    LET l1 == [l EXCEPT !.persisted = TRUE, !.view = "stopped"]
    IN IF l1.line.kind = "unbound" THEN Raise(l1, "UnboundLocalError")
       ELSE IF l1.line.kind # "dict" THEN Raise(l1, "AttributeError")
       ELSE IF done_flag(l1.line) /\ ~(Durations \subseteq DOMAIN l1.line.val)
            THEN Raise(l1, "KeyError")
       ELSE Return(l1, Report("Done!"))

\* Lines 596-609: POST /api/chat answers.
ChatResponse(r, outcome) ==
    /\ req[r].pc = "chat_post"
    /\ LET l == req[r]
       IN IF outcome = "ClientConnectionError"
          THEN /\ req' = [req EXCEPT ![r] = Raise(l, outcome)]
               /\ UNCHANGED <<internal, redis>>
          ELSE IF outcome # "200"
          THEN /\ req' = [req EXCEPT ![r] = Return(l, Report("HTTP error while generating response."))]
               /\ UNCHANGED <<internal, redis>>
          ELSE IF l.view = "cancelled"
          THEN /\ internal' = persist_cache(internal, l)
               /\ redis' = save_thread(internal', redis, l.context)
               /\ req' = [req EXCEPT ![r] = finish(l)]
          ELSE /\ req' = [req EXCEPT ![r] = [l EXCEPT !.pc = "chat_stream"]]
               /\ UNCHANGED <<internal, redis>>
    /\ UNCHANGED <<last_server, store, rr, dec, chk>>

\* Lines 612-615: the visible text after a chunk, cut at the display ceiling.
describe(description, content) ==
    IF StrLen(description \o content) >= 4000
    THEN <<"[", ".", ".", ".", "]">> \o content
    ELSE description \o content

\* A buffer that keeps only the latest chunk.
buffer_write_last(buffer, content) == content

\* Line 611: buffer.write(content).
buffer_write(buffer, content) == buffer \o content

\* The text of event["message"]["content"].
content_of(event) == IF event.val["message"] = "" THEN <<>> ELSE <<event.val["message"]>>

\* Lines 610-633: one line of the chat body arrives (or the body ends).
ChatStream(r, raw) ==
    /\ req[r].pc = "chat_stream"
    /\ LET l == req[r]
           d == ollama_stream(raw)
           l1 == [l EXCEPT !.line = d.value]
           l2 == [l1 EXCEPT !.buffer = buffer_write(@, content_of(d.value)),
                            !.description = describe(@, content_of(d.value)),
                            !.received = @ \o content_of(d.value)]
       IN IF raw = EOF
          THEN /\ internal' = persist_cache(internal, l)
               /\ redis' = save_thread(internal', redis, l.context)
               /\ req' = [req EXCEPT ![r] = finish(l)]
          ELSE IF ~d.yield
          THEN UNCHANGED <<req, internal, redis>>
          ELSE IF d.value.kind # "dict"
          THEN /\ req' = [req EXCEPT ![r] = Raise(l1, "TypeError")]
               /\ UNCHANGED <<internal, redis>>
          ELSE IF ~Has(d.value, "message")
          THEN /\ req' = [req EXCEPT ![r] = Raise(l1, "KeyError")]
               /\ UNCHANGED <<internal, redis>>
          ELSE /\ Len(l2.received) <= MaxBuffer
               /\ IF l.view = "cancelled"
                  THEN /\ internal' = persist_cache(internal, l2)
                       /\ redis' = save_thread(internal', redis, l.context)
                       /\ req' = [req EXCEPT ![r] = finish(l2)]
                  ELSE /\ req' = [req EXCEPT ![r] = l2]
                       /\ UNCHANGED <<internal, redis>>
    /\ UNCHANGED <<last_server, store, rr, dec, chk>>

----------------------------------------------------------------------------
(* Other entry points                                                      *)

\* ChatHistory.create_thread called directly (the command's own call on
\* line 562 raises NameError before it is made).
CreateThread(key, member, seed, default) ==
    /\ key \notin DOMAIN internal
    /\ key \notin DOMAIN redis
    /\ internal' = create_thread(internal, key, member, seed, default)
    /\ UNCHANGED <<redis, last_server, req, store, rr, dec, chk>>

\* The /ollama-history command, line 690: load_thread(thread_id).
OllamaHistory(thread_id) ==
    /\ internal' = load_thread(internal, redis, thread_id)
    /\ UNCHANGED <<redis, last_server, req, store, rr, dec, chk>>

----------------------------------------------------------------------------
(* The bot process                                                         *)

\* A thread an earlier run of the process left in redis.
PriorThread ==
    [member |-> 7, seed |-> 1,
     messages |-> << construct_message("system", FilePrompt, NoImages),
                     construct_message("user", <<"h","i">>, NoImages),
                     construct_message("assistant", <<"x">>, NoImages) >>]

IdleStore == [op |-> "none", id |-> "", fresh |-> FALSE,
              saved |-> [t \in ThreadIds |-> <<>>], got |-> <<>>]
IdlePool == [keys |-> <<"a">>, cursor |-> 0, start |-> 0, returned |-> <<>>]
IdleDecoder == [input |-> <<>>, pos |-> 0, out |-> <<>>]
IdleProbe == <<>>

Init ==
    /\ internal = EmptyDict
    /\ redis = SetItem(EmptyDict, "t2", json_dumps(PriorThread))
    /\ last_server = 0
    /\ req = [r \in {"r1"} |-> InitLocals]
    /\ store = IdleStore
    /\ rr = IdlePool
    /\ dec = IdleDecoder
    /\ chk = IdleProbe

Next ==
    \/ \E r \in DOMAIN req, context \in Contexts : Begin(r, context)
    \/ \E r \in DOMAIN req, model \in RawModels, image \in Images, server \in ServerOptions :
            Validate(r, model, image, server)
    \/ \E r \in DOMAIN req, ok \in BOOLEAN : Probe(r, ok)
    \/ \E r \in DOMAIN req, ok \in BOOLEAN : Failover(r, ok)
    \/ \E r \in DOMAIN req, outcome \in HttpOutcomes : Show(r, outcome)
    \/ \E r \in DOMAIN req, outcome \in HttpOutcomes : PullPost(r, outcome)
    \/ \E r \in DOMAIN req, raw \in PullLines \cup {EOF}, elapsed \in BOOLEAN :
            PullStream(r, raw, elapsed)
    \/ \E r \in DOMAIN req : PullCancel(r)
    \/ \E r \in DOMAIN req : BuildContext(r, <<"h","i">>)
    \/ \E r \in DOMAIN req : ChatCancel(r)
    \/ \E r \in DOMAIN req, outcome \in HttpOutcomes : ChatResponse(r, outcome)
    \/ \E r \in DOMAIN req, raw \in ChatLines \cup {EOF} : ChatStream(r, raw)
    \/ \E key \in ThreadIds, new \in NewThreads : CreateThread(key, new[1], new[2], new[3])
    \/ \E thread_id \in ThreadIds : OllamaHistory(thread_id)

\* One invocation of /ollama, any input, any backend behaviour.
Spec == Init /\ [][Next]_vars

----------------------------------------------------------------------------
(* Two invocations at once                                                 *)

\* The backend is up and has the model; both invocations may name thread t1.
TurnLines == {
    <<"{", "message", "x", "done", "false", "}", "\n">>,
    <<"{", "message", Block, "}", "\n">>,
    <<"{", "message", "", "done", "true", "total_duration", "5", "load_duration", "5",
      "prompt_eval_duration", "5", "eval_duration", "5", "}", "\n">>,
    <<"{", "message", "x", "\n">> }

InitTurns ==
    /\ internal = EmptyDict
    /\ redis = SetItem(EmptyDict, "t2", json_dumps(PriorThread))
    /\ last_server = 0
    /\ req = [r \in {"r1", "r2"} |-> InitLocals]
    /\ store = IdleStore
    /\ rr = IdlePool
    /\ dec = IdleDecoder
    /\ chk = IdleProbe

NextTurns ==
    \/ \E r \in DOMAIN req : Begin(r, "t1")
    \/ \E r \in DOMAIN req, image \in {NoImage, Png} : Validate(r, <<"P","h","i">>, image, "a")
    \/ \E r \in DOMAIN req : Probe(r, TRUE)
    \/ \E r \in DOMAIN req : Show(r, "200")
    \/ \E r \in DOMAIN req, query \in Queries : BuildContext(r, query)
    \/ \E r \in DOMAIN req : ChatCancel(r)
    \/ \E r \in DOMAIN req, outcome \in {"200", "500"} : ChatResponse(r, outcome)
    \/ \E r \in DOMAIN req, raw \in TurnLines \cup {EOF} : ChatStream(r, raw)
    \/ CreateThread("t1", 7, 1, None)

\* Two concurrent invocations of /ollama against a healthy backend.
SpecTurns == InitTurns /\ [][NextTurns]_vars

----------------------------------------------------------------------------
(* The History Store alone                                                 *)

\* The longest thread the store is driven to.
MaxMessages == 2

StoreCall(op, id, fresh, got) ==
    [store EXCEPT !.op = op, !.id = id, !.fresh = fresh, !.got = got]

StoreCreate(key, member, seed, default) ==
    /\ key \notin DOMAIN internal
    /\ key \notin DOMAIN redis
    /\ internal' = create_thread(internal, key, member, seed, default)
    /\ store' = StoreCall("create_thread", key, FALSE, get_history(internal', key))
    /\ UNCHANGED <<redis, last_server, req, rr, dec, chk>>

StoreAdd(id, role, content, images) ==
    /\ id \in DOMAIN internal
    /\ Len(get_history(internal, id)) < MaxMessages
    /\ internal' = add_message(internal, id, role, content, images)
    /\ store' = StoreCall("add_message", id, FALSE, get_history(internal', id))
    /\ UNCHANGED <<redis, last_server, req, rr, dec, chk>>

\* save_thread(id); saved keeps what get_history(id) returned just before.
StoreSave(id) ==
    /\ id \in DOMAIN internal
    /\ redis' = save_thread(internal, redis, id)
    /\ store' = [StoreCall("save_thread", id, FALSE, get_history(internal, id))
                    EXCEPT !.saved[id] = get_history(internal, id)]
    /\ UNCHANGED <<internal, last_server, req, rr, dec, chk>>

\* ChatHistory(): a new store on the same redis, its cache empty.
StoreNew ==
    /\ internal' = EmptyDict
    /\ store' = StoreCall("__init__", "", FALSE, <<>>)
    /\ UNCHANGED <<redis, last_server, req, rr, dec, chk>>

\* load_thread(id), then get_history(id); fresh says the cache did not hold id.
StoreLoad(id) ==
    /\ internal' = load_thread(internal, redis, id)
    /\ store' = StoreCall("load_thread", id, id \notin DOMAIN internal,
                          get_history(internal', id))
    /\ UNCHANGED <<redis, last_server, req, rr, dec, chk>>

StoreMessages ==
    { construct_message("user", <<"h","i">>, <<b64encode(Png.data)>>),
      construct_message("assistant", <<>>, NoImages) }

InitStore ==
    /\ internal = EmptyDict
    /\ redis = EmptyDict
    /\ last_server = 0
    /\ req = [r \in {"r1"} |-> InitLocals]
    /\ store = IdleStore
    /\ rr = IdlePool
    /\ dec = IdleDecoder
    /\ chk = IdleProbe

NextStore ==
    \/ \E key \in ThreadIds, new \in NewThreads : StoreCreate(key, new[1], new[2], new[3])
    \/ \E id \in ThreadIds, m \in StoreMessages : StoreAdd(id, m.role, m.content, m.images)
    \/ \E id \in ThreadIds : StoreSave(id)
    \/ StoreNew
    \/ \E id \in ThreadIds : StoreLoad(id)

\* Any sequence of calls on the History Store.
SpecStore == InitStore /\ [][NextStore]_vars

----------------------------------------------------------------------------
(* next_server alone                                                       *)

\* The largest value the cursor starts from, and the longest run of calls.
MaxStart == 4
MaxCalls == 7

Pools == { <<"a">>, <<"a", "b">>, <<"a", "b", "c">> }

InitPool ==
    /\ internal = EmptyDict
    /\ redis = EmptyDict
    /\ last_server = 0
    /\ req = [r \in {"r1"} |-> InitLocals]
    /\ store = IdleStore
    /\ \E keys \in Pools, start \in 0..MaxStart :
            rr = [keys |-> keys, cursor |-> start, start |-> start, returned |-> <<>>]
    /\ dec = IdleDecoder
    /\ chk = IdleProbe

\* One call next_server() on the pool.
PoolNext ==
    /\ Len(rr.returned) < MaxCalls
    /\ rr' = [rr EXCEPT !.cursor = next_server_cursor(rr.cursor, TRUE),
                         !.returned = Append(@, next_server(rr.keys, rr.cursor, TRUE))]
    /\ UNCHANGED <<internal, redis, last_server, req, store, dec, chk>>

SpecPool == InitPool /\ [][PoolNext]_vars

----------------------------------------------------------------------------
(* ollama_stream alone                                                     *)

\* The longest response body fed to the decoder, in lines.
MaxLines == 3

BodyLines == {
    <<" ", "{", "message", "x", "}", "\n">>,
    <<"{", "status", "pulling", "status", "done", "}", "\n">>,
    <<"5", "\n">>,
    <<"{", "message", "x", "\n">>,
    <<"\n">> }

RECURSIVE Bodies(_)
Bodies(n) ==
    IF n = 0 THEN {<<>>}
    ELSE Bodies(n - 1) \cup {Append(b, l) : b \in Bodies(n - 1), l \in BodyLines}

InitDecoder ==
    /\ internal = EmptyDict
    /\ redis = EmptyDict
    /\ last_server = 0
    /\ req = [r \in {"r1"} |-> InitLocals]
    /\ store = IdleStore
    /\ rr = IdlePool
    /\ \E body \in Bodies(MaxLines) : dec = [input |-> body, pos |-> 0, out |-> <<>>]
    /\ chk = IdleProbe

\* The async for of ollama_stream takes the next line of the body.
DecodeNext ==
    /\ dec.pos < Len(dec.input)
    /\ LET d == ollama_stream(dec.input[dec.pos + 1])
       IN dec' = [dec EXCEPT !.pos = @ + 1,
                             !.out = IF d.yield THEN Append(@, d.value) ELSE @]
    /\ UNCHANGED <<internal, redis, last_server, req, store, rr, chk>>

SpecDecoder == InitDecoder /\ [][DecodeNext]_vars

----------------------------------------------------------------------------
(* check_server alone                                                      *)

\* What GET /api/tags can meet: a response status, or an exception.
Answer(status) == [status |-> status, error |-> ""]
Failure(error) == [status |-> 0, error |-> error]

ProbeOutcomes ==
    { Answer(200), Answer(204), Answer(304), Answer(404), Answer(500),
      Failure("ClientConnectionError"), Failure("TimeoutError") }

\* aiohttp's ClientResponse.ok: the status is below 400.
resp_ok(status) == status < 400

\* check_server that lets a timeout through.
check_server_uncaught(outcome) ==
    IF outcome.error = "ClientConnectionError" THEN [value |-> FALSE, raised |-> ""]
    ELSE IF outcome.error # "" THEN [value |-> FALSE, raised |-> outcome.error]
    ELSE [value |-> resp_ok(outcome.status), raised |-> ""]

\* check_server: return resp.ok, or False on ClientConnectionError and
\* asyncio.TimeoutError.
check_server(outcome) ==
    IF outcome.error \in {"ClientConnectionError", "TimeoutError"}
    THEN [value |-> FALSE, raised |-> ""]
    ELSE [value |-> resp_ok(outcome.status), raised |-> ""]

\* The longest run of probes.
MaxProbes == 3

InitProbe ==
    /\ internal = EmptyDict
    /\ redis = EmptyDict
    /\ last_server = 0
    /\ req = [r \in {"r1"} |-> InitLocals]
    /\ store = IdleStore
    /\ rr = IdlePool
    /\ dec = IdleDecoder
    /\ chk = IdleProbe

\* One call check_server(url) whose GET /api/tags meets outcome.
CheckServer(outcome) ==
    /\ Len(chk) < MaxProbes
    /\ chk' = Append(chk, [outcome |-> outcome, result |-> check_server(outcome)])
    /\ UNCHANGED <<internal, redis, last_server, req, store, rr, dec>>

ProbeNext == \E outcome \in ProbeOutcomes : CheckServer(outcome)

SpecProbe == InitProbe /\ [][ProbeNext]_vars

----------------------------------------------------------------------------
(* Properties                                                              *)

InvalidModelTitle == "Invalid model. You can only use one of the following models: "

\* The reports of the user-input rejections: lines 350, 382, 385 and 406.
UserInputErrors ==
    { "Invalid context key.",
      "Attachment is too large. Maximum size is 25 MB, for sanity. Try compressing it.",
      "Attachment is not an image. Try using a different file.",
      InvalidModelTitle }

\* The messages of the document stored under "threads:" + id.
Durable(db, id) == json_loads(db[id])["messages"].val

\* The cache entries that are thread records.
Threads(cache) == {k \in DOMAIN cache : cache[k].kind = "dict"}

\* C1: a turn whose cancel flag was set while its /api/chat stream was being
\* consumed is never persisted: the add_message and save_thread calls of
\* lines 631-633 do not run for it.
C1_CancelledTurnNotPersisted ==
    \A r \in DOMAIN req : req[r].cancel_at = "chat_stream" => ~req[r].persisted

\* C2: after save_thread(id), a load_thread(id) by a store whose cache does not
\* hold id makes get_history(id) return what it returned just before the save.
C2_RoundTrip ==
    (store.op = "load_thread" /\ store.fresh /\ store.id \in DOMAIN redis)
        => store.got = store.saved[store.id]

\* The step in which invocation r, never cancelled, reaches the end of its
\* chat stream and runs lines 631-633.
PersistStep(r) ==
    /\ req[r].pc = "chat_stream"
    /\ req[r].view = "shown"
    /\ req'[r].persisted

\* The user message and the assistant message holding every received content.
FullTurn(l) == << l.user_message, construct_message("assistant", l.received, NoImages) >>

\* C3 (as stated): after a turn whose stream ended without cancellation, the
\* durable messages are the thread's messages before the turn (those the
\* turn's payload was built from) followed by the user message and one
\* assistant message holding every received content.
C3_DurableIsBeforeTurnPlusTurn ==
    [][\A r \in DOMAIN req : PersistStep(r) =>
            LET chat == req[r].sent[Len(req[r].sent)]
                before == SubSeq(chat.messages, 1, Len(chat.messages) - 1)
            IN Durable(redis', req[r].context) = before \o FullTurn(req[r])]_vars

\* C3 (amended): after a turn whose stream ended without cancellation, the
\* durable messages are the thread's cached messages at the moment the stream
\* ended followed by the user message (with its image, if any) and one
\* assistant message whose content is every received content in arrival
\* order, untruncated.
C3_DurableIsCachePlusTurn ==
    [][\A r \in DOMAIN req : PersistStep(r) =>
            Durable(redis', req[r].context)
                = get_history(internal, req[r].context) \o FullTurn(req[r])]_vars

\* A turn with an image ended uncancelled after two chunks, the visible text
\* truncated, while another turn had been persisted to the same thread since
\* its payload was built.
C3_Witness ==
    \E r \in DOMAIN req :
        /\ req[r].pc = "returned" /\ req[r].persisted /\ req[r].cancel_at = ""
        /\ Len(req[r].received) = 2
        /\ req[r].description[1] = "["
        /\ req[r].user_message.images # NoImages
        /\ Len(Durable(redis, req[r].context))
                > Len(req[r].sent[Len(req[r].sent)].messages) + 1

\* C4: while the probes keep failing the invocation has made the initial
\* probe and one probe per failover attempt, at most 10 attempts; it ends in
\* "All servers are offline." after exactly 11 probes and 10 next_server
\* calls, having posted nothing, persisted nothing and raised nothing, and
\* its probing steps leave the cache and the durable store alone.
C4_AllOffline ==
    /\ [](\A r \in DOMAIN req :
            /\ req[r].pc = "failover" =>
                    /\ req[r].probes = req[r].i + 1
                    /\ req[r].i < FailoverAttempts
                    /\ req[r].sent = <<>>
            /\ req[r].report.title = "All servers are offline." =>
                    /\ req[r].pc = "returned"
                    /\ req[r].probes = 1 + FailoverAttempts
                    /\ last_server \in {FailoverAttempts, FailoverAttempts + 1}
                    /\ req[r].sent = <<>>
                    /\ ~req[r].persisted
                    /\ req[r].session = "closed")
    /\ [][\A r \in DOMAIN req :
            (req[r].pc \in {"probe", "failover"} /\ req'[r] # req[r])
                => UNCHANGED <<internal, redis>>]_vars

C4_Witness ==
    \E r \in DOMAIN req :
        req[r].report.title = "All servers are offline." /\ req[r].probes = 11

\* C5: an invocation is rejected with the invalid-model report exactly when
\* its normalized model id matches no glob pattern of the selected backend's
\* allowed_models; the rejection comes before any probe, session or HTTP
\* request and reports that backend's allow-list.
C5_AllowList ==
    \A r \in DOMAIN req :
        /\ req[r].report.title = InvalidModelTitle =>
                /\ req[r].pc = "returned"
                /\ req[r].probes = 0 /\ req[r].sent = <<>> /\ req[r].session = "none"
                /\ req[r].report.detail = CONFIG[req[r].server].allowed_models
                /\ \A n \in 1..Len(CONFIG[req[r].server].allowed_models) :
                        ~fnmatch(req[r].model, CONFIG[req[r].server].allowed_models[n])
        /\ req[r].pc = "probe" =>
                \E n \in 1..Len(CONFIG[req[r].server].allowed_models) :
                        fnmatch(req[r].model, CONFIG[req[r].server].allowed_models[n])

C5_Witness ==
    \E r \in DOMAIN req :
        /\ req[r].report.title = InvalidModelTitle
        /\ req[r].server = "b"
        /\ req[r].model = <<"p","h","i",":","l","a","t","e","s","t">>

\* C6: from any starting cursor, every N consecutive calls of next_server()
\* on a pool of N keys return each key exactly once, each call returns the
\* key that follows the previous one in configuration order, and the
\* sequence repeats with period N.
C6_RoundRobin ==
    LET N == Len(rr.keys)
        R == rr.returned
    IN /\ \A n \in 1..Len(R) :
            n + N - 1 <= Len(R) => {R[m] : m \in n..(n + N - 1)} = {rr.keys[k] : k \in 1..N}
       /\ \A n \in 1..Len(R) : n + N <= Len(R) => R[n + N] = R[n]
       /\ \A n \in 1..(Len(R) - 1) :
            \E k \in 1..N : R[n] = rr.keys[k] /\ R[n + 1] = rr.keys[(k % N) + 1]

C6_Witness ==
    Len(rr.keys) = 3 /\ rr.start > 0 /\ Len(rr.returned) = MaxCalls

\* C7: no invocation of /ollama exits with an unhandled exception.
C7_NoUnhandledException ==
    \A r \in DOMAIN req : req[r].pc # "raised"

\* C8: the step that rejects an invocation for a user-input error leaves the
\* pool cursor, the thread cache and the durable store as they were.
C8_RejectionLeavesState ==
    [][\A r \in DOMAIN req :
            (req[r].pc # "returned" /\ req'[r].pc = "returned"
                /\ req'[r].report.title \in UserInputErrors)
            => UNCHANGED <<last_server, internal, redis>>]_vars

Parseable(raw) == json_decodes(strip(raw))

\* The lines that parse, decoded, in their order.
Decoded(lines) ==
    LET kept == SelectSeq(lines, Parseable)
    IN [n \in 1..Len(kept) |-> json_loads_line(strip(kept[n]))]

\* C10: after any number of input lines, ollama_stream has yielded exactly
\* the lines among them that parse as JSON, decoded, in their order; a line
\* that fails to parse is skipped and the lines after it are still decoded.
C10_YieldsParseableLines ==
    /\ dec.pos <= Len(dec.input)
    /\ dec.out = Decoded(SubSeq(dec.input, 1, dec.pos))

\* Three lines consumed, the middle one malformed, the outer two yielded.
C10_Witness ==
    /\ dec.pos = 3
    /\ ~Parseable(dec.input[2])
    /\ Len(dec.out) = 2

\* C11: an invocation is rejected with "Invalid context key." only when its
\* context key names no thread of the durable store either.
C11_DurableContextAccepted ==
    \A r \in DOMAIN req :
        req[r].report.title = "Invalid context key." => req[r].context \notin DOMAIN redis

\* C12: the step that takes an invocation without a context key out of
\* BUILD_CONTEXT's start puts a new thread holding one system message into
\* the cache.
C12_NoContextCreatesThread ==
    [][\A r \in DOMAIN req :
            (req[r].pc = "build" /\ req[r].context = NoKey /\ req'[r].pc # "build")
            => \E k \in Threads(internal') \ Threads(internal) :
                    /\ Len(internal'[k].val.messages) = 1
                    /\ internal'[k].val.messages[1].role = "system"]_vars

\* C13: a turn whose cancel flag was set while its chat stream was being
\* consumed never ends in the "Done!" outcome.
C13_CancelledTurnNotDone ==
    \A r \in DOMAIN req : req[r].cancel_at = "chat_stream" => req[r].report.title # "Done!"

\* C14: load_thread(id) on an id of the durable store leaves the cache with
\* the key id added and every other key as it was, and returns a non-empty
\* value; on an id absent from the durable store it leaves the cache unchanged.
C14_LoadThreadFillsCache ==
    [][store'.op = "load_thread" =>
            IF store'.id \in DOMAIN redis
            THEN /\ DOMAIN internal' = (DOMAIN internal) \cup {store'.id}
                 /\ \A k \in (DOMAIN internal) \ {store'.id} : internal'[k] = internal[k]
                 /\ Truthy(load_thread_result(internal, redis, store'.id))
            ELSE internal' = internal]_vars

\* C15: get_history of an unknown id is empty; the step that builds the
\* payload from get_history and appends the user message to it leaves the
\* cache and the durable store unchanged; and a cached thread changes only in
\* the step that runs the add_message calls of its turn.
C15_HistoryIsCopy ==
    /\ [](\A id \in ThreadIds : id \notin DOMAIN internal => get_history(internal, id) = <<>>)
    /\ [][\A r \in DOMAIN req :
            (req[r].pc = "build" /\ req'[r].pc = "chat_post")
            => /\ UNCHANGED <<internal, redis>>
               /\ req'[r].sent[Len(req'[r].sent)].messages
                    = Append(get_history(internal', req[r].context), req'[r].user_message)]_vars
    /\ [][\A k \in Threads(internal) :
            internal'[k] # internal[k]
            => \E r \in DOMAIN req :
                    req[r].context = k /\ ~req[r].persisted /\ req'[r].persisted]_vars

\* The payload of a turn on a cached thread has been built: the thread's
\* messages and the user message appended to them.
C15_Witness ==
    \E r \in DOMAIN req :
        /\ req[r].pc = "chat_post"
        /\ req[r].context \in Threads(internal)
        /\ Len(req[r].sent[Len(req[r].sent)].messages) >= 2
        /\ Len(get_history(internal, req[r].context))
                = Len(req[r].sent[Len(req[r].sent)].messages) - 1

Terminal == {"returned", "raised"}

StepOrder ==
    { <<"idle", "deferred">>, <<"deferred", "probe">>,
      <<"probe", "failover">>, <<"probe", "show">>,
      <<"failover", "failover">>, <<"failover", "show">>,
      <<"show", "pull_post">>, <<"show", "build">>,
      <<"pull_post", "pull_stream">>, <<"pull_stream", "pull_stream">>,
      <<"pull_stream", "build">>,
      <<"build", "build">>, <<"build", "chat_post">>,
      <<"chat_post", "chat_post">>, <<"chat_post", "chat_stream">>,
      <<"chat_stream", "chat_stream">> }
    \cup ({"idle", "deferred", "probe", "failover", "show", "pull_post", "pull_stream",
           "build", "chat_post", "chat_stream"} \X Terminal)

\* C17: an invocation moves only forward through RESOLVE_BACKEND,
\* ENSURE_MODEL, PULL_MODEL, BUILD_CONTEXT, STREAM_GENERATE and its end; the
\* durable store is written only by the step that persists a turn, which is
\* taken only from STREAM_GENERATE after /api/chat was posted and did not
\* fail; an invocation that has reported its outcome has ended, and an ended
\* invocation does nothing more: no thread and no durable value changes once
\* it has ended.
C17_StepOrder ==
    /\ [](\A r \in DOMAIN req :
            /\ req[r].report.title # "" => req[r].pc \in Terminal
            /\ req[r].persisted =>
                    /\ req[r].pc \in Terminal
                    /\ req[r].sent[Len(req[r].sent)].url = "/api/chat"
                    /\ req[r].report.title \notin
                            {"HTTP error while generating response.", "ClientConnectionError"})
    /\ [][\A r \in DOMAIN req :
            /\ req'[r] # req[r] => <<req[r].pc, req'[r].pc>> \in StepOrder
            /\ (~req[r].persisted /\ req'[r].persisted)
                    => req[r].pc \in {"chat_post", "chat_stream"}]_vars
    /\ [][redis' # redis =>
            \E r \in DOMAIN req : ~req[r].persisted /\ req'[r].persisted]_vars
    /\ [][(\A r \in DOMAIN req : req[r].pc \in Terminal) =>
            /\ redis' = redis
            /\ \A k \in Threads(internal) : internal'[k] = internal[k]]_vars

\* A turn that went through the download ended in "Done!".
C17_Witness ==
    \E r \in DOMAIN req :
        /\ req[r].report.title = "Done!"
        /\ Len(req[r].sent) = 3
        /\ req[r].sent[2].url = "/api/pull"

\* C18: after POST /api/show the download is entered exactly when the answer
\* was 404; a 200 leads to the generation without a download; any other
\* answer, a connection error included, ends the invocation with a report,
\* /api/show being the only request it sent, and changes no thread.
C18_EnsureModel ==
    /\ [](\A r \in DOMAIN req :
            /\ (\E n \in 1..Len(req[r].sent) : req[r].sent[n].url = "/api/pull")
                    => req[r].show = "404"
            /\ req[r].pc \in {"pull_post", "pull_stream"} => req[r].show = "404"
            /\ req[r].show \notin {"", "200", "404"} =>
                    /\ req[r].pc = "returned"
                    /\ req[r].report.title \in {"HTTP error while checking for model.",
                                                "Connection error while checking for model."}
                    /\ Len(req[r].sent) = 1 /\ req[r].sent[1].url = "/api/show"
                    /\ ~req[r].persisted)
    /\ [][\A r \in DOMAIN req :
            (req[r].pc = "show" /\ req'[r].pc # "show") =>
                /\ UNCHANGED <<internal, redis>>
                /\ req'[r].pc = "pull_post" <=> req'[r].show = "404"
                /\ req'[r].pc = "build" <=> req'[r].show = "200"]_vars

C18_Witness ==
    \E r \in DOMAIN req :
        /\ req[r].show = "500"
        /\ req[r].report.title = "HTTP error while checking for model."

\* The base URLs of the backends whose probe failed in this invocation.
FailedUrls(l) == {CONFIG[k].base_url : k \in l.failed}

\* C19 (as stated): no request of a turn is sent to a backend whose probe
\* failed in that invocation.
C19_NeverToFailedBackend ==
    \A r \in DOMAIN req : \A n \in 1..Len(req[r].sent) :
        req[r].sent[n].base_url \notin FailedUrls(req[r])

\* C19 (amended): the failover loop makes one next_server call and one probe
\* per attempt, at most 10 attempts; probing stops with the first probe that
\* succeeds, and every request of the turn is sent to the base_url of the
\* backend whose probe succeeded.
C19_SentToBackendThatPassed ==
    /\ [](\A r \in DOMAIN req :
            /\ req[r].pc = "failover" =>
                    /\ req[r].i < FailoverAttempts
                    /\ req[r].probes = req[r].i + 1
                    /\ last_server = (IF req[r].option = "next" THEN 1 ELSE 0) + req[r].i + 1
            /\ req[r].sent # <<>> =>
                    /\ req[r].passed \in DOMAIN CONFIG
                    /\ \A n \in 1..Len(req[r].sent) :
                            req[r].sent[n].base_url = CONFIG[req[r].passed].base_url)
    /\ [][\A r \in DOMAIN req :
            req[r].passed # "" =>
                /\ req'[r].passed = req[r].passed
                /\ req'[r].probes = req[r].probes
                /\ last_server' = last_server]_vars

\* A turn posted its requests to a backend that had failed a probe earlier in
\* the same invocation and passed a later one.
C19_Witness ==
    \E r \in DOMAIN req :
        /\ req[r].passed \in req[r].failed
        /\ Len(req[r].sent) >= 2
        /\ req[r].sent[Len(req[r].sent)].url = "/api/chat"

\* C20: every /api/chat and /api/pull request goes to a backend whose
\* allowed_models holds a pattern that matches the request's model id.
C20_SentOnlyWhereAllowed ==
    \A r \in DOMAIN req : \A n \in 1..Len(req[r].sent) :
        req[r].sent[n].url \in {"/api/chat", "/api/pull"} =>
            \E k \in DOMAIN CONFIG :
                /\ CONFIG[k].base_url = req[r].sent[n].base_url
                /\ model_allowed(req[r].sent[n].model, CONFIG[k])

\* C21: once the download's cancel flag is set the invocation is still
\* reading the pull stream or has ended in "Download cancelled."; it posts
\* nothing to /api/chat.
C21_PullCancelEnds ==
    \A r \in DOMAIN req :
        req[r].pull_cancel =>
            /\ \/ req[r].pc = "pull_stream"
               \/ req[r].pc = "returned" /\ req[r].report.title = "Download cancelled."
            /\ \A n \in 1..Len(req[r].sent) : req[r].sent[n].url # "/api/chat"

\* The step in which invocation r runs lines 631-633.
Persists(r) == ~req[r].persisted /\ req'[r].persisted

\* The assistant message a turn persists.
Reply(l) == construct_message("assistant", l.buffer, NoImages)

\* C22: whenever a turn persists, the thread's durable value becomes the
\* cached thread as that turn left it, ending with that turn's user and
\* assistant messages, whatever another turn wrote there before; no other
\* durable value changes, and nothing else writes the durable store.
C22_LastSaveWins ==
    /\ [][\A r \in DOMAIN req : Persists(r) =>
            LET id == req[r].context
                durable == Durable(redis', id)
            IN /\ redis'[id] = json_dumps(internal'[id].val)
               /\ SubSeq(durable, Len(durable) - 1, Len(durable))
                    = << req'[r].user_message, Reply(req'[r]) >>
               /\ \A k \in (DOMAIN redis) \ {id} : redis'[k] = redis[k]]_vars
    /\ [][redis' # redis => \E r \in DOMAIN req : Persists(r)]_vars

\* Two turns on one thread were in flight together (each built its payload
\* from the thread before the other persisted) and both persisted.
C22_Witness ==
    /\ \A r \in DOMAIN req :
            /\ req[r].persisted
            /\ req[r].context = "t1"
            /\ Len(req[r].sent[Len(req[r].sent)].messages) = 2
    /\ Len(Durable(redis, "t1")) = 5

\* One system message, then (user, assistant) pairs.
SystemThenPairs(messages) ==
    /\ Len(messages) >= 3
    /\ Len(messages) % 2 = 1
    /\ messages[1].role = "system"
    /\ \A n \in 1..((Len(messages) - 1) \div 2) :
            messages[2 * n].role = "user" /\ messages[2 * n + 1].role = "assistant"

\* C23: every durable value is one system message followed by (user,
\* assistant) pairs; the durable value of a thread holds, as one such pair,
\* the user message and the assistant message of every turn that persisted
\* to it, and one pair per persisted turn.
C23_DurablePairs ==
    /\ \A k \in DOMAIN redis : SystemThenPairs(Durable(redis, k))
    /\ \A r \in DOMAIN req :
            req[r].persisted =>
                \E n \in 1..((Len(Durable(redis, req[r].context)) - 1) \div 2) :
                    /\ Durable(redis, req[r].context)[2 * n] = req[r].user_message
                    /\ Durable(redis, req[r].context)[2 * n + 1] = Reply(req[r])
    /\ "t1" \in DOMAIN redis =>
            Len(Durable(redis, "t1"))
                = 1 + 2 * Cardinality({r \in DOMAIN req : req[r].persisted})

\* Two turns with different prompts persisted to one thread.
C23_Witness ==
    /\ \A r \in DOMAIN req : req[r].persisted
    /\ req["r1"].user_message # req["r2"].user_message
    /\ \E r \in DOMAIN req : Len(req[r].sent[Len(req[r].sent)].messages) = 4

\* C24: the messages of the /api/chat payload are the thread's cached
\* messages at the moment the payload is built, all of them in order,
\* followed by one user message holding the prompt and, when an image was
\* attached, its base64 text.
C24_PayloadIsHistoryPlusUser ==
    [][\A r \in DOMAIN req :
            (req[r].pc = "build" /\ req'[r].pc = "chat_post") =>
                LET chat == req'[r].sent[Len(req'[r].sent)]
                    history == internal[req[r].context].val.messages
                IN /\ chat.url = "/api/chat"
                   /\ Len(chat.messages) = Len(history) + 1
                   /\ \A n \in 1..Len(history) : chat.messages[n] = history[n]
                   /\ chat.messages[Len(chat.messages)].role = "user"
                   /\ chat.messages[Len(chat.messages)].content \in Queries
                   /\ chat.messages[Len(chat.messages)].images
                        = IF req[r].attached THEN <<b64encode(Png.data)>> ELSE NoImages]_vars

\* The payload of a second turn with an image: three stored messages and the
\* new one.
C24_Witness ==
    \E r \in DOMAIN req :
        /\ req[r].pc = "chat_post"
        /\ req[r].attached
        /\ Len(req[r].sent[Len(req[r].sent)].messages) = 4

\* The seeds create_thread is given.
Seeds == {new[2] : new \in NewThreads}

\* C25: a cached thread's seed is the one it was created with and no step
\* changes it; the seed of every /api/chat payload and the seed of the
\* durable value are the seed of the cached thread.
C25_SeedIsFixed ==
    /\ [](/\ \A r \in DOMAIN req : \A n \in 1..Len(req[r].sent) :
                req[r].sent[n].url = "/api/chat" =>
                    /\ req[r].context \in Threads(internal)
                    /\ req[r].sent[n].seed = internal[req[r].context].val.seed
          /\ \A k \in (DOMAIN redis) \cap Threads(internal) :
                json_loads(redis[k])["seed"].val = internal[k].val.seed)
    /\ [][/\ \A k \in Threads(internal) : internal'[k].val.seed = internal[k].val.seed
          /\ \A k \in Threads(internal') \ Threads(internal) :
                internal'[k].val.seed \in Seeds]_vars

C25_Witness ==
    \E r \in DOMAIN req :
        /\ req[r].persisted
        /\ req[r].sent[Len(req[r].sent)].seed = 2
        /\ json_loads(redis[req[r].context])["seed"].val = 2

\* C26: a turn whose stream ended without cancellation after at least one
\* event ends in "Done!", whatever fields its last event holds.
C26_TimingsOptional ==
    \A r \in DOMAIN req :
        (req[r].persisted /\ req[r].cancel_at = "" /\ req[r].line.kind = "dict")
            => req[r].pc = "returned" /\ req[r].report.title = "Done!"

\* C27: an invocation has no session before server selection, an open one
\* from then until it ends, and a closed one in every terminal state reached
\* after the session was opened; a closed session stays closed.
C27_SessionClosed ==
    /\ [](\A r \in DOMAIN req :
            /\ req[r].pc \in {"idle", "deferred"} => req[r].session = "none"
            /\ req[r].pc \notin Terminal \cup {"idle", "deferred"} => req[r].session = "open"
            /\ req[r].pc \in Terminal => req[r].session # "open"
            /\ (req[r].pc \in Terminal /\ req[r].server_config # "")
                    => req[r].session = "closed")
    /\ [][\A r \in DOMAIN req :
            req[r].session = "closed" => req'[r].session = "closed"]_vars

\* An exception left the handler and the session is closed.
C27_Witness ==
    \E r \in DOMAIN req :
        /\ req[r].pc = "raised"
        /\ req[r].report.title = "ClientConnectionError"
        /\ req[r].session = "closed"

\* C28 (as stated): check_server raises nothing and returns true only for a
\* 2xx response.
C28_TrueOnly2xx ==
    \A n \in 1..Len(chk) :
        /\ chk[n].result.raised = ""
        /\ chk[n].result.value <=>
                (chk[n].outcome.error = "" /\ chk[n].outcome.status \in 200..299)

\* C28 (amended): check_server raises nothing and returns true exactly when
\* GET /api/tags is answered with a status below 400; a status of 400 or
\* more, a connection error and a timeout make it return false.
C28_TrueBelow400 ==
    \A n \in 1..Len(chk) :
        /\ chk[n].result.raised = ""
        /\ chk[n].result.value <=>
                (chk[n].outcome.error = "" /\ chk[n].outcome.status < 400)

\* A 304 answered true, a timeout and a 500 answered false.
C28_Witness ==
    /\ Len(chk) = 3
    /\ chk[1].outcome = Answer(304) /\ chk[1].result.value
    /\ chk[2].outcome = Failure("TimeoutError") /\ ~chk[2].result.value
    /\ chk[3].outcome = Answer(500) /\ ~chk[3].result.value

\* C29: a pull progress event with 0 <= completed <= total never makes the
\* percentage computation raise.
C29_PercentNeverRaises ==
    \A r \in DOMAIN req :
        (/\ req[r].line.kind = "dict"
         /\ Has(req[r].line, "total") /\ Has(req[r].line, "completed")
         /\ NumOf[req[r].line.val["completed"]] <= NumOf[req[r].line.val["total"]])
            => req[r].report.title # "ZeroDivisionError"

\* C30: the model of an invocation is the normalized model it was given,
\* switched to llava:latest exactly when an image is attached and the
\* normalized model does not match llava:*; the allow-list admits the
\* invocation on the switched model; and a /api/chat payload carries an image
\* exactly when one was attached, its model then matching llava:*.
C30_ImageNeedsLlava ==
    \A r \in DOMAIN req :
        /\ req[r].given # <<>> =>
                req[r].model =
                    IF req[r].attached /\ ~fnmatch(normalize_model(req[r].given), LlavaAny)
                    THEN LlavaLatest
                    ELSE normalize_model(req[r].given)
        /\ req[r].pc = "probe" => model_allowed(req[r].model, CONFIG[req[r].server])
        /\ \A n \in 1..Len(req[r].sent) :
                req[r].sent[n].url = "/api/chat" =>
                    LET user == req[r].sent[n].messages[Len(req[r].sent[n].messages)]
                    IN /\ (user.images # NoImages) <=> req[r].attached
                       /\ user.images # NoImages => fnmatch(req[r].sent[n].model, LlavaAny)

\* A request for Phi with an image reached /api/chat as llava:latest on a
\* backend that does not allow phi.
C30_Witness ==
    \E r \in DOMAIN req :
        /\ req[r].given = <<"P","h","i">>
        /\ req[r].attached
        /\ req[r].option = "b"
        /\ req[r].sent # <<>>
        /\ req[r].sent[Len(req[r].sent)].url = "/api/chat"
        /\ req[r].sent[Len(req[r].sent)].model = LlavaLatest

====
